---- MODULE Spec2Model ----
(***************************************************************************)
(* A model of python-example/utils/config_manager.py: the experiment       *)
(* artifact manager.  The state is the filesystem below the root data      *)
(* directory (directories, files and their contents) and the module level  *)
(* variable new_path.  Every public function of the module is one action.  *)
(*                                                                         *)
(* Strings that the code takes apart (version tags, artifact names,        *)
(* formats, file names) are sequences of tokens.  The tokens form a prefix *)
(* free code ("v1", "v2", "a", "b", "_", ".", "pkl", "csv", "json",        *)
(* "png", "yml", "config"), so str.startswith and string equality on the   *)
(* Python strings are prefix and equality on the token sequences.          *)
(***************************************************************************)
EXTENDS Naturals, Sequences, FiniteSets, TLC

VARIABLES
    new_path,   \* config_manager.new_path: os.getenv("NEW_DATA_PATH")
    dirs,       \* the directories below the root, as paths relative to it
    files,      \* file key -> content, for every regular file below the root
    owner,      \* history: file key -> effective version of the call that last wrote it
    saved,      \* history: the (folder, version, name, format) whose save_data opened its file
    nops,       \* number of calls made so far
    last,       \* the last call: its arguments, its outcome, the state before it
    proc        \* concurrent callers: each one's position inside its call

vars == <<new_path, dirs, files, owner, saved, nops, last, proc>>

----------------------------------------------------------------------------
(* Bounds of the model *)

MaxOps == 2
NProcs == 2

----------------------------------------------------------------------------
(* Inputs *)

NoneVal == "None"
RootDir == "/tmp/root"

Folders == {"exp1"}

V1 == <<"v1">>
V2 == <<"v2">>
V1a == <<"v1", "_", "a">>
Versions == {V1, V2, V1a}

\* notebook_config: a mapping with the key 'name' and, optionally, 'version'
Configs ==
    {[name |-> f] : f \in Folders}
        \cup {[name |-> f, version |-> v] : f \in Folders, v \in Versions}

PKL == <<"pkl">>
CSV == <<"csv">>
JSON == <<"json">>
BPKL == <<"b", ".", "pkl">>
PNG == <<"png">>
DataFormats == {PKL, CSV, JSON, BPKL}
FigFormats == {PNG}

DataNames == {<<"b">>, <<"a", "_", "b">>, <<"b", ".", "b">>}
FigNames == {<<"b">>}

\* data objects: a list, a pandas DataFrame, a lambda
Data == {"list", "frame", "lambda"}
Picklable == {"list", "frame"}
HasToCsv == {"frame"}
Figures == {"fig"}

Docs == {"doc"}
Suffixes == {V1}

----------------------------------------------------------------------------
(* Results of a call *)

Ok(v) == [st |-> "ok", msg |-> "", val |-> v]
Err(kind, m) == [st |-> kind, msg |-> m, val |-> NoneVal]

MsgUnsupported == "Unsupported data format. Use 'pkl' or 'csv'."
MsgNoToCsv == "Data does not have a 'to_csv' method."
MsgNotFound == "Data file not found"
MsgJoinNone == "expected str, bytes or os.PathLike object, not NoneType"

----------------------------------------------------------------------------
(* Paths *)

\* mutant: a missing root is taken for a usable (empty) root
RootMissingDefaulted == FALSE

\* os.path.join(new_path, ...) raises TypeError when new_path is None
RootMissing == new_path = NoneVal

\* notebook_config.get('version', 'v1')
EffVersion(cfg) == IF "version" \in DOMAIN cfg THEN cfg["version"] ELSE V1

DataPath(folder) == <<folder, "data">>
FiguresPath(folder) == <<folder, "figures">>

\* f"{config_version}_{data_name}.{data_format}"
ArtifactName(version, name, fmt) == version \o <<"_">> \o name \o <<".">> \o fmt

\* f"config_{config_suffix}.yml"
ConfigName(suffix) == <<"config", "_">> \o suffix \o <<".", "yml">>

FileKey(dir, fname) == [dir |-> dir, file |-> fname]

\* str.startswith
StartsWith(s, p) == Len(s) >= Len(p) /\ SubSeq(s, 1, Len(p)) = p

----------------------------------------------------------------------------
(* The filesystem *)

\* os.path.exists of a directory path
Exists(d, path) == path \in d

\* os.path.exists of a file path
FileExists(f, k) == k \in DOMAIN f

Prefixes(path) == {SubSeq(path, 1, n) : n \in 1..Len(path)}

\* os.makedirs(path, exist_ok=True): creates the path and its missing parents
Makedirs(d, path) == d \cup Prefixes(path)

\* open(path, 'w' / 'wb') followed by a complete write: creates or replaces
WriteFile(f, k, c) == [x \in DOMAIN f \cup {k} |-> IF x = k THEN c ELSE f[x]]

\* os.remove of every key in ks
RemoveFiles(f, ks) == [x \in DOMAIN f \ ks |-> f[x]]

\* os.listdir(dir), the regular files in it
ListDir(f, dir) == {k \in DOMAIN f : k.dir = dir}

----------------------------------------------------------------------------
(* Serialization *)

Pickle(x) == [kind |-> "pkl", obj |-> x]
ToCsv(x) == [kind |-> "csv", obj |-> x]
Yaml(x) == [kind |-> "yml", obj |-> x]
Image(x) == [kind |-> "img", obj |-> x]
\* what open(path, 'wb') leaves when pickle.dump raises: an empty file, or
\* the frames written before the failure
Truncated(how) == [kind |-> "trunc", obj |-> how]
TruncKinds == {"empty", "partial"}

\* pickle.load
Unpickle(c) ==
    IF c.kind = "pkl" THEN Ok(c.obj)
    ELSE IF c.kind = "trunc" /\ c.obj = "empty" THEN Err("EOFError", "Ran out of input")
    ELSE Err("UnpicklingError", "invalid load key")

\* pd.read_csv: the table re-parsed from text (index and types not preserved)
Reparsed(x) == IF x = "frame" THEN "frame_reparsed" ELSE x
ReadCsv(c) ==
    IF c.kind = "csv" THEN Ok(Reparsed(c.obj))
    ELSE IF c.kind = "trunc" /\ c.obj = "empty"
        THEN Err("EmptyDataError", "No columns to parse from file")
    ELSE Err("ParserError", "Error tokenizing data")

\* yaml.safe_load
YamlLoad(c) == IF c.kind = "yml" THEN Ok(c.obj) ELSE Err("YAMLError", "")

----------------------------------------------------------------------------
(* The functions of config_manager, as effects on (dirs, files) *)

Out(d, f, r) == [dirs |-> d, files |-> f, res |-> r]

load_configs(d, f, folder, suffix) ==
    IF RootMissing THEN Out(d, f, Err("TypeError", MsgJoinNone))
    ELSE LET k == FileKey(<<folder>>, ConfigName(suffix))
         IN  IF FileExists(f, k) THEN Out(d, f, YamlLoad(f[k]))
             ELSE Out(d, f, Err("FileNotFoundError", "No such file or directory"))

save_configs(d, f, folder, doc, suffix) ==
    IF RootMissing THEN Out(d, f, Err("TypeError", MsgJoinNone))
    ELSE LET k == FileKey(<<folder>>, ConfigName(suffix))
         IN  IF Exists(d, <<folder>>) THEN Out(d, WriteFile(f, k, Yaml(doc)), Ok(NoneVal))
             ELSE Out(d, f, Err("FileNotFoundError", "No such file or directory"))

\* mutant: the skeleton is created without the existence check
initialise_config_unchecked(d, f, folder) ==
    IF RootMissing THEN Out(d, f, Err("TypeError", MsgJoinNone))
    ELSE Out(Makedirs(Makedirs(Makedirs(d, <<folder>>), DataPath(folder)),
                      FiguresPath(folder)), f, Ok(NoneVal))

initialise_config(d, f, folder) ==
    IF RootMissing THEN Out(d, f, Err("TypeError", MsgJoinNone))
    ELSE IF ~Exists(d, <<folder>>)
        THEN Out(Makedirs(Makedirs(Makedirs(d, <<folder>>), DataPath(folder)),
                          FiguresPath(folder)), f, Ok(NoneVal))
    ELSE Out(d, f, Ok(NoneVal))

save_figure(d, f, cfg, fig, name, fmt) ==
    IF RootMissing THEN Out(d, f, Err("TypeError", MsgJoinNone))
    ELSE LET dp == FiguresPath(cfg.name)
             d2 == IF ~Exists(d, dp) THEN Makedirs(d, dp) ELSE d
             k == FileKey(dp, ArtifactName(EffVersion(cfg), name, fmt))
         IN  Out(d2, WriteFile(f, k, Image(fig)), Ok(NoneVal))

\* mutant: the artifact file is opened before the dispatch on the format
save_data_opens_first(d, f, cfg, data, name, fmt, how) ==
    IF RootMissing THEN Out(d, f, Err("TypeError", MsgJoinNone))
    ELSE LET dp == DataPath(cfg.name)
             d2 == IF ~Exists(d, dp) THEN Makedirs(d, dp) ELSE d
             k == FileKey(dp, ArtifactName(EffVersion(cfg), name, fmt))
         IN  IF fmt = PKL
                 THEN IF data \in Picklable
                          THEN Out(d2, WriteFile(f, k, Pickle(data)), Ok(NoneVal))
                          ELSE Out(d2, WriteFile(f, k, Truncated(how)),
                                   Err("PicklingError", "Can't pickle"))
             ELSE IF fmt = CSV
                 THEN IF data \in HasToCsv
                          THEN Out(d2, WriteFile(f, k, ToCsv(data)), Ok(NoneVal))
                          ELSE Out(d2, WriteFile(f, k, Truncated("empty")),
                                   Err("ValueError", MsgNoToCsv))
             ELSE Out(d2, WriteFile(f, k, Truncated("empty")),
                      Err("ValueError", MsgUnsupported))

save_data(d, f, cfg, data, name, fmt, how) ==
    IF RootMissing THEN Out(d, f, Err("TypeError", MsgJoinNone))
    ELSE LET dp == DataPath(cfg.name)
             d2 == IF ~Exists(d, dp) THEN Makedirs(d, dp) ELSE d
             k == FileKey(dp, ArtifactName(EffVersion(cfg), name, fmt))
         IN  IF fmt = PKL
                 THEN IF data \in Picklable
                          THEN Out(d2, WriteFile(f, k, Pickle(data)), Ok(NoneVal))
                          ELSE Out(d2, WriteFile(f, k, Truncated(how)),
                                   Err("PicklingError", "Can't pickle"))
             ELSE IF fmt = CSV
                 THEN IF data \in HasToCsv
                          THEN Out(d2, WriteFile(f, k, ToCsv(data)), Ok(NoneVal))
                          ELSE Out(d2, f, Err("ValueError", MsgNoToCsv))
             ELSE Out(d2, f, Err("ValueError", MsgUnsupported))

\* the files clear_data_and_figure removes from one directory
Cleared(f, dir, version) ==
    {k \in ListDir(f, dir) : StartsWith(k.file, version \o <<"_">>)}

clear_data_and_figure(d, f, cfg, data, figure) ==
    IF ~data /\ ~figure THEN Out(d, f, Ok(NoneVal))
    ELSE IF RootMissing THEN Out(d, f, Err("TypeError", MsgJoinNone))
    ELSE LET ver == EffVersion(cfg)
             f1 == IF Exists(d, DataPath(cfg.name))
                       THEN RemoveFiles(f, Cleared(f, DataPath(cfg.name), ver))
                       ELSE f
             f2 == IF Exists(d, FiguresPath(cfg.name))
                       THEN RemoveFiles(f1, Cleared(f1, FiguresPath(cfg.name), ver))
                       ELSE f1
         IN  Out(d, f2, Ok(NoneVal))

\* mutant: the format is dispatched on before the existence check
load_data_format_first(d, f, cfg, name, fmt) ==
    IF RootMissing THEN Out(d, f, Err("TypeError", MsgJoinNone))
    ELSE LET k == FileKey(DataPath(cfg.name), ArtifactName(EffVersion(cfg), name, fmt))
         IN  IF fmt \notin {PKL, CSV} THEN Out(d, f, Err("ValueError", MsgUnsupported))
             ELSE IF ~FileExists(f, k) THEN Out(d, f, Err("FileNotFoundError", MsgNotFound))
             ELSE IF fmt = PKL THEN Out(d, f, Unpickle(f[k]))
             ELSE Out(d, f, ReadCsv(f[k]))

load_data(d, f, cfg, name, fmt) ==
    IF RootMissing THEN Out(d, f, Err("TypeError", MsgJoinNone))
    ELSE LET k == FileKey(DataPath(cfg.name), ArtifactName(EffVersion(cfg), name, fmt))
         IN  IF ~FileExists(f, k) THEN Out(d, f, Err("FileNotFoundError", MsgNotFound))
             ELSE IF fmt = PKL THEN Out(d, f, Unpickle(f[k]))
             ELSE IF fmt = CSV THEN Out(d, f, ReadCsv(f[k]))
             ELSE Out(d, f, Err("ValueError", MsgUnsupported))

----------------------------------------------------------------------------
(* The sequential program: one action per function, each call atomic *)

EmptyMap == [x \in {} |-> NoneVal]
Procs == 1..NProcs
Idle == [op |-> "idle", cfg |-> [name |-> "none"], pc |-> "idle", queue |-> <<>>,
         res |-> Ok(NoneVal), raced |-> FALSE, present |-> FALSE]

NoCall ==
    [op |-> "none", cfg |-> [name |-> "none"], data |-> NoneVal, name |-> <<>>,
     fmt |-> <<>>, dflag |-> FALSE, fflag |-> FALSE, res |-> Ok(NoneVal),
     pre_dirs |-> {}, pre_files |-> EmptyMap, pre_owner |-> EmptyMap]

Call(op, cfg, data, name, fmt, dflag, fflag, r) ==
    [op |-> op, cfg |-> cfg, data |-> data, name |-> name, fmt |-> fmt,
     dflag |-> dflag, fflag |-> fflag, res |-> r.res,
     pre_dirs |-> dirs, pre_files |-> files, pre_owner |-> owner]

Init ==
    /\ new_path \in {NoneVal, RootDir}
    /\ dirs = {}
    /\ files = EmptyMap
    /\ owner = EmptyMap
    /\ saved = {}
    /\ nops = 0
    /\ last = NoCall
    /\ proc = [p \in Procs |-> Idle]

\* history: who wrote which file (the files the call opened and those it
\* created); a removed file has no owner
OwnerAfter(f2, written, ver) ==
    [x \in DOMAIN f2 |-> IF x \in written \/ x \notin DOMAIN owner THEN ver ELSE owner[x]]

Step(r, written, ver, call) ==
    /\ nops < MaxOps
    /\ nops' = nops + 1
    /\ dirs' = r.dirs
    /\ files' = r.files
    /\ owner' = OwnerAfter(r.files, written, ver)
    /\ last' = call
    /\ UNCHANGED <<new_path, proc>>

LoadConfigs ==
    \E folder \in Folders, suffix \in Suffixes :
        LET r == load_configs(dirs, files, folder, suffix)
        IN  /\ Step(r, {}, suffix,
                    Call("load_configs", [name |-> folder], NoneVal, suffix, <<"yml">>,
                         FALSE, FALSE, r))
            /\ UNCHANGED saved

SaveConfigs ==
    \E folder \in Folders, doc \in Docs, suffix \in Suffixes :
        LET r == save_configs(dirs, files, folder, doc, suffix)
            k == FileKey(<<folder>>, ConfigName(suffix))
        IN  /\ Step(r, IF r.res.st = "ok" THEN {k} ELSE {}, suffix,
                    Call("save_configs", [name |-> folder], doc, suffix, <<"yml">>,
                         FALSE, FALSE, r))
            /\ UNCHANGED saved

InitialiseConfig ==
    \E folder \in Folders :
        LET r == initialise_config(dirs, files, folder)
        IN  /\ Step(r, {}, V1,
                    Call("initialise_config", [name |-> folder], NoneVal, <<>>, <<>>,
                         FALSE, FALSE, r))
            /\ UNCHANGED saved

SaveFigure ==
    \E cfg \in Configs, fig \in Figures, name \in FigNames, fmt \in FigFormats :
        LET r == save_figure(dirs, files, cfg, fig, name, fmt)
            k == FileKey(FiguresPath(cfg.name), ArtifactName(EffVersion(cfg), name, fmt))
        IN  /\ Step(r, IF r.res.st = "ok" THEN {k} ELSE {}, EffVersion(cfg),
                    Call("save_figure", cfg, fig, name, fmt, FALSE, FALSE, r))
            /\ UNCHANGED saved

\* the calls of save_data that reach open() or to_csv() on the artifact file
Opens(data, fmt) == ~RootMissing /\ (fmt = PKL \/ (fmt = CSV /\ data \in HasToCsv))

SaveData ==
    \E cfg \in Configs, data \in Data, name \in DataNames, fmt \in DataFormats :
      \E how \in (IF fmt = PKL /\ data \notin Picklable THEN TruncKinds ELSE {"empty"}) :
        LET r == save_data(dirs, files, cfg, data, name, fmt, how)
            k == FileKey(DataPath(cfg.name), ArtifactName(EffVersion(cfg), name, fmt))
        IN  /\ Step(r, IF Opens(data, fmt) THEN {k} ELSE {}, EffVersion(cfg),
                    Call("save_data", cfg, data, name, fmt, FALSE, FALSE, r))
            /\ saved' = IF Opens(data, fmt)
                            THEN saved \cup {[folder |-> cfg.name, version |-> EffVersion(cfg),
                                              name |-> name, fmt |-> fmt]}
                            ELSE saved

ClearDataAndFigure ==
    \E cfg \in Configs, data \in BOOLEAN, figure \in BOOLEAN :
        LET r == clear_data_and_figure(dirs, files, cfg, data, figure)
        IN  /\ Step(r, {}, EffVersion(cfg),
                    Call("clear_data_and_figure", cfg, NoneVal, <<>>, <<>>, data, figure, r))
            /\ UNCHANGED saved

LoadData ==
    \E cfg \in Configs, name \in DataNames, fmt \in DataFormats :
        LET r == load_data(dirs, files, cfg, name, fmt)
        IN  /\ Step(r, {}, EffVersion(cfg),
                    Call("load_data", cfg, NoneVal, name, fmt, FALSE, FALSE, r))
            /\ UNCHANGED saved

Next ==
    \/ LoadConfigs
    \/ SaveConfigs
    \/ InitialiseConfig
    \/ SaveFigure
    \/ SaveData
    \/ ClearDataAndFigure
    \/ LoadData

Spec == Init /\ [][Next]_vars

----------------------------------------------------------------------------
(* Concurrent callers of initialise_config, save_data and save_figure on   *)
(* one filesystem.  Each existence check, each mkdir and each file write   *)
(* is one step; os.makedirs(path, exist_ok=True) is the check of the       *)
(* parent, the creation of a missing parent and the mkdir of the path.     *)

\* mutant: os.makedirs without exist_ok
ExistOkOff == FALSE

\* the exist_ok argument the code passes to os.makedirs
ExistOk == TRUE

RaceOps == {"initialise_config", "save_data", "save_figure"}
RaceName == <<"b">>
RaceConfigs == {c \in Configs : "version" \in DOMAIN c => c["version"] = V2}

Parent(path) == SubSeq(path, 1, Len(path) - 1)

\* the directory a save call writes into
TargetDir(q) ==
    IF q.op = "save_data" THEN DataPath(q.cfg.name) ELSE FiguresPath(q.cfg.name)

\* the file a save call writes
TargetFile(q) ==
    FileKey(TargetDir(q),
            ArtifactName(EffVersion(q.cfg), RaceName, IF q.op = "save_data" THEN PKL ELSE PNG))

RCall(p) ==
    /\ proc[p].pc = "idle"
    /\ \E op \in RaceOps, cfg \in RaceConfigs :
           proc' = [proc EXCEPT ![p] = [@ EXCEPT !.op = op, !.cfg = cfg, !.pc = "check",
                                          !.res = Ok(NoneVal), !.raced = FALSE,
                                          !.present = FALSE]]
    /\ UNCHANGED <<new_path, dirs, files, owner, saved, nops, last>>

\* if not os.path.exists(...)
RCheck(p) ==
    /\ proc[p].pc = "check"
    /\ LET q == proc[p]
           folder == q.cfg.name
       IN  proc' = [proc EXCEPT ![p] =
               IF q.op = "initialise_config"
                   THEN IF Exists(dirs, <<folder>>)
                            THEN [q EXCEPT !.pc = "done"]
                            ELSE [q EXCEPT !.pc = "mk_head",
                                           !.queue = <<<<folder>>, DataPath(folder),
                                                       FiguresPath(folder)>>]
                   ELSE IF Exists(dirs, TargetDir(q))
                            THEN [q EXCEPT !.pc = "write"]
                            ELSE [q EXCEPT !.pc = "mk_head", !.queue = <<TargetDir(q)>>]]
    /\ UNCHANGED <<new_path, dirs, files, owner, saved, nops, last>>

\* os.makedirs: does the parent of the path exist?
RMkHead(p) ==
    /\ proc[p].pc = "mk_head"
    /\ LET q == proc[p]
           target == Head(q.queue)
       IN  proc' = [proc EXCEPT ![p] =
               IF Len(target) > 1 /\ ~Exists(dirs, Parent(target))
                   THEN [q EXCEPT !.pc = "mk_parent"]
                   ELSE [q EXCEPT !.pc = "mk_leaf"]]
    /\ UNCHANGED <<new_path, dirs, files, owner, saved, nops, last>>

\* os.makedirs: create the missing parent; a FileExistsError from it is passed over
RMkParent(p) ==
    /\ proc[p].pc = "mk_parent"
    /\ LET q == proc[p]
           parent == Parent(Head(q.queue))
       IN  /\ dirs' = dirs \cup {parent}
           /\ proc' = [proc EXCEPT ![p] = [q EXCEPT !.pc = "mk_leaf",
                                                    !.raced = q.raced \/ parent \in dirs]]
    /\ UNCHANGED <<new_path, files, owner, saved, nops, last>>

\* os.makedirs: mkdir of the path itself; an existing directory is accepted
\* only with exist_ok
RMkLeaf(p) ==
    /\ proc[p].pc = "mk_leaf"
    /\ LET q == proc[p]
           target == Head(q.queue)
           rest == Tail(q.queue)
           after == IF rest # <<>> THEN "mk_head"
                    ELSE IF q.op = "initialise_config" THEN "done" ELSE "write"
       IN  IF target \in dirs
               THEN /\ dirs' = dirs
                    /\ proc' = [proc EXCEPT ![p] =
                           IF ExistOk
                               THEN [q EXCEPT !.pc = after, !.queue = rest, !.raced = TRUE]
                               ELSE [q EXCEPT !.pc = "done", !.queue = <<>>,
                                              !.res = Err("FileExistsError", "File exists")]]
           ELSE IF Len(target) > 1 /\ Parent(target) \notin dirs
               THEN /\ dirs' = dirs
                    /\ proc' = [proc EXCEPT ![p] =
                           [q EXCEPT !.pc = "done", !.queue = <<>>,
                                     !.res = Err("FileNotFoundError", "No such file or directory")]]
           ELSE /\ dirs' = dirs \cup {target}
                /\ proc' = [proc EXCEPT ![p] = [q EXCEPT !.pc = after, !.queue = rest]]
    /\ UNCHANGED <<new_path, files, owner, saved, nops, last>>

\* fig.savefig(fig_path) / open(data_file_path, 'wb') and pickle.dump
RWrite(p) ==
    /\ proc[p].pc = "write"
    /\ LET q == proc[p]
           k == TargetFile(q)
           c == IF q.op = "save_data" THEN Pickle("list") ELSE Image("fig")
       IN  IF TargetDir(q) \in dirs
               THEN /\ files' = WriteFile(files, k, c)
                    /\ owner' = OwnerAfter(files', {k}, EffVersion(q.cfg))
                    /\ proc' = [proc EXCEPT ![p] = [q EXCEPT !.pc = "done", !.present = TRUE]]
               ELSE /\ UNCHANGED <<files, owner>>
                    /\ proc' = [proc EXCEPT ![p] =
                           [q EXCEPT !.pc = "done",
                                     !.res = Err("FileNotFoundError", "No such file or directory")]]
    /\ UNCHANGED <<new_path, dirs, saved, nops, last>>

RReturn(p) ==
    /\ proc[p].pc = "done"
    /\ proc[p].res.st = "ok"
    /\ proc' = [proc EXCEPT ![p] = Idle]
    /\ UNCHANGED <<new_path, dirs, files, owner, saved, nops, last>>

InitRace == Init /\ new_path = RootDir

NextRace ==
    \E p \in Procs :
        \/ RCall(p)
        \/ RCheck(p)
        \/ RMkHead(p)
        \/ RMkParent(p)
        \/ RMkLeaf(p)
        \/ RWrite(p)
        \/ RReturn(p)

SpecRace == InitRace /\ [][NextRace]_vars

----------------------------------------------------------------------------
(* Properties *)

LastFolder == last.cfg.name
LastVersion == EffVersion(last.cfg)
\* the artifact file the last save_data / load_data call resolved
LastKey == FileKey(DataPath(LastFolder), ArtifactName(LastVersion, last.name, last.fmt))
Unchanged == dirs = last.pre_dirs /\ files = last.pre_files
Kept(k) == k \in DOMAIN files /\ files[k] = last.pre_files[k]

\* C1: clear_data_and_figure with data=True, figure=False deletes no file of
\* the figures directory, and with data=False, figure=True no file of the
\* data directory.
C1_ClearOnlySelected ==
    last.op = "clear_data_and_figure" =>
        /\ (last.dflag /\ ~last.fflag) =>
               \A k \in DOMAIN last.pre_files : k.dir = FiguresPath(LastFolder) => Kept(k)
        /\ (~last.dflag /\ last.fflag) =>
               \A k \in DOMAIN last.pre_files : k.dir = DataPath(LastFolder) => Kept(k)

\* the artifact kinds a call is about: the directory a save writes into, the
\* directories a clear was asked to clear (the other one is C1's subject)
Selected(dir) ==
    \/ last.op = "save_data" /\ dir = DataPath(LastFolder)
    \/ last.op = "save_figure" /\ dir = FiguresPath(LastFolder)
    \/ last.op = "clear_data_and_figure" /\ last.dflag /\ dir = DataPath(LastFolder)
    \/ last.op = "clear_data_and_figure" /\ last.fflag /\ dir = FiguresPath(LastFolder)

\* C2: a save_data, save_figure or clear_data_and_figure call under version v
\* leaves every artifact file last saved under another version w in place,
\* with its content.
C2_VersionIsolation ==
    \A k \in DOMAIN last.pre_files :
        (Selected(k.dir) /\ last.pre_owner[k] # LastVersion) => Kept(k)

\* C3: a save_data or load_data call that ends in an error leaves the artifact
\* file at the resolved path as it was: absent if it was absent, with the same
\* content otherwise.
C3_AllOrNothing ==
    (last.op \in {"save_data", "load_data"} /\ last.res.st # "ok") =>
        /\ LastKey \in DOMAIN files <=> LastKey \in DOMAIN last.pre_files
        /\ LastKey \in DOMAIN files => files[LastKey] = last.pre_files[LastKey]

\* C4: with the root configured, save_data with a format other than 'pkl' and
\* 'csv' raises the unsupported-format ValueError and the files below the root,
\* and their contents, are those before the call.
C4_UnsupportedFormatCreatesNoFile ==
    (new_path = RootDir /\ last.op = "save_data" /\ last.fmt \notin {PKL, CSV}) =>
        /\ last.res = Err("ValueError", MsgUnsupported)
        /\ files = last.pre_files

\* C4 witness: save_data(format="json") on a fresh root has failed; it created
\* the data directory and no file.
C4_Witness ==
    /\ new_path = RootDir
    /\ last.op = "save_data"
    /\ last.fmt = JSON
    /\ last.res.st = "ValueError"
    /\ DataPath(LastFolder) \notin last.pre_dirs
    /\ DataPath(LastFolder) \in dirs

\* C5 as stated: with the root configured, load_data with a format other than
\* 'pkl' and 'csv' raises the unsupported-format error in every filesystem
\* state and changes nothing on disk.
C5_AlwaysUnsupportedFormat ==
    (new_path = RootDir /\ last.op = "load_data" /\ last.fmt \notin {PKL, CSV}) =>
        /\ last.res = Err("ValueError", MsgUnsupported)
        /\ Unchanged

\* C5 amended: with the root configured, load_data with a format other than
\* 'pkl' and 'csv' changes nothing on disk and raises FileNotFoundError when no
\* file exists at the resolved path, the unsupported-format ValueError when one
\* does.
C5_NotFoundBeforeFormat ==
    (new_path = RootDir /\ last.op = "load_data" /\ last.fmt \notin {PKL, CSV}) =>
        /\ Unchanged
        /\ last.res = IF LastKey \in DOMAIN last.pre_files
                          THEN Err("ValueError", MsgUnsupported)
                          ELSE Err("FileNotFoundError", MsgNotFound)

\* C5 witness: load_data(name="b", format="b.pkl") found the file that
\* save_data(name="b.b", format="pkl") wrote, and raised the unsupported-format
\* error.
C5_Witness ==
    /\ new_path = RootDir
    /\ last.op = "load_data"
    /\ last.fmt = BPKL
    /\ LastKey \in DOMAIN files
    /\ last.res = Err("ValueError", MsgUnsupported)

\* C6: right after a successful save_data(cfg, x, name, 'pkl'), load_data
\* returns x under every config of the same name and effective version (no
\* 'version' key meaning 'v1'); and a load_data for a (version, name, format)
\* whose file no save_data call has created raises FileNotFoundError.
C6_RoundTrip ==
    /\ (new_path = RootDir /\ last.op = "save_data" /\ last.fmt = PKL /\ last.res.st = "ok") =>
           \A c \in Configs :
               (c.name = LastFolder /\ EffVersion(c) = LastVersion) =>
                   load_data(dirs, files, c, last.name, PKL).res = Ok(last.data)
    /\ (/\ new_path = RootDir
        /\ last.op = "load_data"
        /\ [folder |-> LastFolder, version |-> LastVersion, name |-> last.name,
            fmt |-> last.fmt] \notin saved) =>
           last.res.st = "FileNotFoundError"

\* C7: with the root configured, initialise_config on a folder that already
\* exists raises nothing and leaves every directory and file as it was.
C7_InitialiseIdempotent ==
    (/\ new_path = RootDir
     /\ last.op = "initialise_config"
     /\ Exists(last.pre_dirs, <<LastFolder>>)) =>
        /\ last.res.st = "ok"
        /\ Unchanged

\* C7 witness: initialise_config has run on an existing folder that holds a
\* file.
C7_Witness ==
    /\ new_path = RootDir
    /\ last.op = "initialise_config"
    /\ Exists(last.pre_dirs, <<LastFolder>>)
    /\ DOMAIN files # {}
    /\ last.res.st = "ok"

\* C8 as stated: with the root unset every call fails with the error of the
\* missing root and creates, modifies and deletes nothing.
C8_EveryCallFails ==
    (new_path = NoneVal /\ last.op # "none") =>
        /\ last.res = Err("TypeError", MsgJoinNone)
        /\ Unchanged

\* C8 amended: with the root unset every call creates, modifies and deletes
\* nothing, and fails with the TypeError of joining a None root, except
\* clear_data_and_figure with both flags False, which returns without error.
C8_FailsUnlessNoOpClear ==
    (new_path = NoneVal /\ last.op # "none") =>
        /\ Unchanged
        /\ dirs = {}
        /\ DOMAIN files = {}
        /\ last.res = IF last.op = "clear_data_and_figure" /\ ~last.dflag /\ ~last.fflag
                          THEN Ok(NoneVal)
                          ELSE Err("TypeError", MsgJoinNone)

\* C8 witness: with the root unset, a save_data call has failed with TypeError.
C8_Witness ==
    /\ new_path = NoneVal
    /\ last.op = "save_data"
    /\ last.res = Err("TypeError", MsgJoinNone)
    /\ Unchanged

\* C9: among concurrent callers of initialise_config, save_data and
\* save_figure no call fails, and every save call that has written its file
\* found its target directory present.
C9_BenignRace ==
    \A p \in Procs :
        /\ proc[p].res.st = "ok"
        /\ (proc[p].pc = "done" /\ proc[p].op \in {"save_data", "save_figure"}) =>
               /\ proc[p].present
               /\ TargetFile(proc[p]) \in DOMAIN files

\* C9 witness: a save_data caller saw the data directory missing, found it
\* created by another caller when it came to create it, and wrote its file.
C9_Witness ==
    \E p \in Procs :
        /\ proc[p].op = "save_data"
        /\ proc[p].pc = "done"
        /\ proc[p].raced
        /\ proc[p].present
        /\ proc[p].res.st = "ok"

\* C10: with the root configured, after calls that completed every experiment
\* folder that exists holds both subdirectories 'data' and 'figures'.
C10_FolderStructure ==
    (new_path = RootDir /\ last.res.st = "ok") =>
        \A f \in Folders :
            Exists(dirs, <<f>>) => Exists(dirs, DataPath(f)) /\ Exists(dirs, FiguresPath(f))

====
